---- MODULE Spec2Model ----
(***************************************************************************)
(* Model of the base2048 codec of src/src/lib.rs: encode (lines 29-73) and *)
(* decode (lines 84-142), each as a loop-level state machine, together     *)
(* with the two callers the repository has: the round-trip test            *)
(* (lib.rs 148-198) and a direct call of decode on an arbitrary string.    *)
(* Characters are modelled by their code points.                           *)
(***************************************************************************)
EXTENDS Integers, Sequences, FiniteSets, TLC

VARIABLES caller, pc, bytes, bi, enc_ret, enc_stage, enc_remaining,
          string, chars, dec_ret, dec_remaining, dec_stage, residue, result

vars == <<caller, pc, bytes, bi, enc_ret, enc_stage, enc_remaining,
          string, chars, dec_ret, dec_remaining, dec_stage, residue, result>>

(***************************************************************************)
(* Bounds of the model.                                                    *)
(***************************************************************************)
\* longest byte sequence handed to encode (lengths 0..10 hit every class
\* 8*len mod 11)
MaxBytes == 10
\* longest run of primary characters in front of the last one or two
\* characters of a string handed to decode directly
MaxPrefix == 7
\* byte sequences of up to MaxShort bytes are built from three byte values,
\* longer ones from two
MaxShort == 4
ByteVals == {0, 165, 255}
LongByteVals == {0, 255}
\* group indices of the primary characters used in directly decoded strings
PrimIdx == {0, 1365}

(***************************************************************************)
(* Program constants and tables.                                           *)
(***************************************************************************)
TAIL_BITS == 3
BITS_PER_CHAR == 11

\* '0'..'7'
TAIL == [i \in 0..7 |-> 48 + i]

\* The forward table: 2048 distinct characters, none of them a tail
\* character, the largest code point being 4181 (DEC_TABLE has 4182 entries).
ENC_TABLE == [i \in 0..2047 |-> 2134 + ((i * 5 + 7) % 2048)]

EncChars == {ENC_TABLE[i] : i \in DOMAIN ENC_TABLE}

\* The reverse table: indexed by code point 0..4181, group index or 0xFFFF.
DEC_TABLE == [c \in 0..4181 |->
                IF c \in EncChars
                  THEN CHOOSE i \in DOMAIN ENC_TABLE : ENC_TABLE[i] = c
                  ELSE 65535]

(***************************************************************************)
(* Fixed-width integer primitives.                                         *)
(***************************************************************************)
RECURSIVE BitAnd(_, _)
BitAnd(a, b) == IF a = 0 \/ b = 0 THEN 0
                ELSE (a % 2) * (b % 2) + 2 * BitAnd(a \div 2, b \div 2)

RECURSIVE BitOr(_, _)
BitOr(a, b) == IF a = 0 THEN b
               ELSE IF b = 0 THEN a
               ELSE (IF a % 2 = 1 \/ b % 2 = 1 THEN 1 ELSE 0)
                    + 2 * BitOr(a \div 2, b \div 2)

Shl16(x, n) == (x * (2 ^ n)) % 65536
\* u32 shift left, (x * 2^n) mod 2^32, written so that no intermediate value
\* leaves the 32-bit signed range of the model checker's integers
Shl32(x, n) == IF n < 2 THEN x * (2 ^ n) ELSE (x % (2 ^ (32 - n))) * (2 ^ n)
Shr(x, n) == IF n > 30 THEN 0 ELSE x \div (2 ^ n)
Not16(x) == 65535 - x

\* TAIL_BITS - need in u32 arithmetic when need > TAIL_BITS and the build
\* wraps: the mathematical value is 2^32 + TAIL_BITS - need, at least
\* 2^32 - 5.  It is only ever compared with a count of trailing one-bits
\* (at most 64), so it is represented by the same offset below 2^31.
WrapSub32(a, b) == 2147483647 + ((a - b) + 1)

RECURSIVE TrailingOnes(_)
TrailingOnes(x) == IF x % 2 = 1 THEN 1 + TrailingOnes(x \div 2) ELSE 0

(***************************************************************************)
(* encode                                                                  *)
(***************************************************************************)
\* let need = 11 - remaining;
EncNeed(remaining) == 11 - remaining

\* let index = (stage << need) | (byte >> remaining);
EncIndex(stage, byte, need, remaining) ==
    BitOr(Shl16(stage, need), Shr(byte, remaining))

\* EncRest without the mask: the whole byte is kept in stage
EncRestNoMask(byte, remaining) == byte

\* stage = byte & ((1 << remaining) - 1);
EncRest(byte, remaining) == BitAnd(byte, Shl16(1, remaining) - 1)

\* EncShiftIn dropping the bits already held in stage
EncShiftInDrop(stage, byte) == byte

\* stage = (stage << 8) | byte;
EncShiftIn(stage, byte) == BitOr(Shl16(stage, 8), byte)

\* EncHasLeftover that drops a single leftover bit
EncHasLeftoverOffByOne(remaining) == remaining > 1

\* if remaining > 0
EncHasLeftover(remaining) == remaining > 0

\* EncUsesTail with a strict comparison
EncUsesTailStrict(remaining) == remaining < TAIL_BITS

\* if remaining <= TAIL_BITS
EncUsesTail(remaining) == remaining <= TAIL_BITS

\* PadIndex filling the pad positions with 0 bits
PadIndexZero(stage, padding) == Shl16(stage, padding)

\* let index = stage << padding | !(!0 << padding);
PadIndex(stage, padding) ==
    BitOr(Shl16(stage, padding), Not16(Shl16(Not16(0), padding)))

\* One iteration of `for byte in bytes`.
EncodeByte ==
    /\ pc = "encode"
    /\ bi < Len(bytes)
    /\ LET byte == bytes[bi + 1]
           need == EncNeed(enc_remaining)
       IN IF need <= 8
            THEN LET rem == 8 - need
                     index == EncIndex(enc_stage, byte, need, rem)
                 IN IF index \in DOMAIN ENC_TABLE
                      THEN /\ enc_ret' = Append(enc_ret, ENC_TABLE[index])
                           /\ enc_remaining' = rem
                           /\ enc_stage' = EncRest(byte, rem)
                           /\ pc' = "encode"
                      ELSE /\ pc' = "encode_panic"
                           /\ UNCHANGED <<enc_ret, enc_remaining, enc_stage>>
            ELSE /\ enc_stage' = EncShiftIn(enc_stage, byte)
                 /\ enc_remaining' = enc_remaining + 8
                 /\ pc' = "encode"
                 /\ UNCHANGED enc_ret
    /\ bi' = bi + 1
    /\ UNCHANGED <<caller, bytes, string, chars, dec_ret, dec_remaining,
                   dec_stage, residue, result>>

\* The code after the loop: the leftover bits and the return.
EncodeTail ==
    /\ pc = "encode"
    /\ bi = Len(bytes)
    /\ IF EncHasLeftover(enc_remaining)
         THEN IF EncUsesTail(enc_remaining)
                THEN LET index == PadIndex(enc_stage, TAIL_BITS - enc_remaining)
                     IN IF index \in DOMAIN TAIL
                          THEN enc_ret' = Append(enc_ret, TAIL[index])
                                /\ pc' = "encoded"
                          ELSE pc' = "encode_panic" /\ UNCHANGED enc_ret
                ELSE LET index == PadIndex(enc_stage,
                                           BITS_PER_CHAR - enc_remaining)
                     IN IF index \in DOMAIN ENC_TABLE
                          THEN enc_ret' = Append(enc_ret, ENC_TABLE[index])
                                /\ pc' = "encoded"
                          ELSE pc' = "encode_panic" /\ UNCHANGED enc_ret
         ELSE pc' = "encoded" /\ UNCHANGED enc_ret
    /\ UNCHANGED <<caller, bytes, bi, enc_stage, enc_remaining, string, chars,
                   dec_ret, dec_remaining, dec_stage, residue, result>>

\* let encoded = encode(&tv[..]); let decoded = decode(&encoded)
CallDecode ==
    /\ pc = "encoded"
    /\ string' = enc_ret
    /\ chars' = enc_ret
    /\ pc' = "decode"
    /\ UNCHANGED <<caller, bytes, bi, enc_ret, enc_stage, enc_remaining,
                   dec_ret, dec_remaining, dec_stage, residue, result>>

(***************************************************************************)
(* decode                                                                  *)
(***************************************************************************)
\* TAIL.iter().enumerate().find(|(_, t)| *t == &c): the index, or -1
TailFind(c) == IF \E i \in DOMAIN TAIL : TAIL[i] = c
                 THEN CHOOSE i \in DOMAIN TAIL : TAIL[i] = c
                 ELSE -1

\* PaddingOk accepting every tail character
PaddingOkAny(index, padding) == TRUE

\* index.trailing_ones() >= padding
PaddingOk(index, padding) == TrailingOnes(index) >= padding

\* (need, index as u16 >> padding)
TailBits(index, padding) == Shr(index, padding)

\* residue = (residue + 11) % 8;
NextResidue(r) == (r + 11) % 8

\* LastNBits taking all 11 bits of the last character
LastNBitsAll(r) == 11

\* (11 - residue, new_bits >> residue) for the last character
LastNBits(r) == 11 - r
LastBits(new_bits, r) == Shr(new_bits, r)

\* while remaining >= 8 { remaining -= 8; ret.push(..); stage &= .. }
RECURSIVE Flush(_, _, _)
Flush(ret, remaining, stage) ==
    IF remaining >= 8
      THEN LET r == remaining - 8
           IN Flush(Append(ret, Shr(stage, r) % 256), r,
                    BitAnd(stage, Shl32(1, r) - 1))
      ELSE [ret |-> ret, remaining |-> remaining, stage |-> stage]

\* remaining += n_new_bits; stage = (stage << n_new_bits) | new_bits
Accumulate(ret, remaining, stage, n_new_bits, new_bits) ==
    Flush(ret, remaining + n_new_bits,
          BitOr(Shl32(stage, n_new_bits), new_bits))

Fail(outcome) == [pc |-> outcome, acc |-> [ret |-> dec_ret,
                  remaining |-> dec_remaining, stage |-> dec_stage]]
Go(acc) == [pc |-> "decode", acc |-> acc]

\* The body of `while let Some(c) = chars.next()` for character c; last is
\* chars.peek().is_none(); checks tells whether the build traps integer
\* overflow (debug) or wraps (release).
DecodeStep(c, last, checks) ==
    LET r == NextResidue(residue)
    IN IF c \notin DOMAIN DEC_TABLE
         THEN Fail("panic")
         ELSE IF DEC_TABLE[c] = 65535
           THEN IF ~last
                  THEN Fail("none")
                  ELSE LET index == TailFind(c)
                       IN IF index = -1
                            THEN Fail("none")
                            ELSE LET need == 8 - dec_remaining
                                     padding ==
                                       IF need <= TAIL_BITS
                                         THEN TAIL_BITS - need
                                         ELSE WrapSub32(TAIL_BITS, need)
                                 IN IF need > TAIL_BITS /\ checks
                                      THEN Fail("panic")
                                      ELSE IF PaddingOk(index, padding)
                                        THEN Go(Accumulate(dec_ret,
                                                dec_remaining, dec_stage, need,
                                                TailBits(index, padding)))
                                        ELSE Fail("none")
           ELSE IF last
                  THEN Go(Accumulate(dec_ret, dec_remaining, dec_stage,
                                     LastNBits(r), LastBits(DEC_TABLE[c], r)))
                  ELSE Go(Accumulate(dec_ret, dec_remaining, dec_stage,
                                     11, DEC_TABLE[c]))

DecodeChar ==
    /\ pc = "decode"
    /\ chars # <<>>
    /\ \E checks \in BOOLEAN :
         LET s == DecodeStep(Head(chars), Len(chars) = 1, checks)
         IN /\ pc' = IF s.pc = "none" THEN "done" ELSE s.pc
            /\ result' = IF s.pc = "decode" THEN result ELSE s.pc
            /\ dec_ret' = s.acc.ret
            /\ dec_remaining' = s.acc.remaining
            /\ dec_stage' = s.acc.stage
    /\ residue' = NextResidue(residue)
    /\ chars' = Tail(chars)
    /\ UNCHANGED <<caller, bytes, bi, enc_ret, enc_stage, enc_remaining,
                   string>>

\* The code after the loop: if remaining > 0 { ret.push(..) }  Some(ret)
DecodeEnd ==
    /\ pc = "decode"
    /\ chars = <<>>
    /\ dec_ret' = IF dec_remaining > 0
                    THEN Append(dec_ret,
                                Shr(dec_stage, 8 - dec_remaining) % 256)
                    ELSE dec_ret
    /\ result' = "some"
    /\ pc' = "done"
    /\ UNCHANGED <<caller, bytes, bi, enc_ret, enc_stage, enc_remaining,
                   string, chars, dec_remaining, dec_stage, residue>>

(***************************************************************************)
(* Inputs                                                                  *)
(***************************************************************************)
SeqsUpTo(S, n) == UNION {[1..k -> S] : k \in 0..n}

TailChars == {TAIL[i] : i \in DOMAIN TAIL}
PrimChars == {ENC_TABLE[i] : i \in PrimIdx}
\* 'X' is no symbol of either alphabet; 8364 is the euro sign
OtherChars == TailChars \cup {88, 8364}
SecondChars == {ENC_TABLE[0], TAIL[7], 88, 8364}

Suffixes == {<<>>} \cup {<<a>> : a \in OtherChars}
              \cup {<<a, b>> : a \in OtherChars, b \in SecondChars}

Strings == {p \o s : p \in SeqsUpTo(PrimChars, MaxPrefix), s \in Suffixes}

InitLocals ==
    /\ bi = 0
    /\ enc_ret = <<>>
    /\ enc_stage = 0
    /\ enc_remaining = 0
    /\ dec_ret = <<>>
    /\ dec_remaining = 0
    /\ dec_stage = 0
    /\ residue = 0
    /\ result = "running"

Init ==
    /\ InitLocals
    /\ \/ /\ caller = "roundtrip"
          /\ pc = "encode"
          /\ bytes \in SeqsUpTo(ByteVals, MaxShort)
                         \cup SeqsUpTo(LongByteVals, MaxBytes)
          /\ string = <<>>
          /\ chars = <<>>
       \/ /\ caller = "decode"
          /\ pc = "decode"
          /\ bytes = <<>>
          /\ string \in Strings
          /\ chars = string

Next == EncodeByte \/ EncodeTail \/ CallDecode \/ DecodeChar \/ DecodeEnd

Spec == Init /\ [][Next]_vars

(***************************************************************************)
(* Properties                                                              *)
(***************************************************************************)
IsPrimary(c) == \E i \in 0..2047 : ENC_TABLE[i] = c
IsTail(c) == c \in 48..55
TailValue(c) == c - 48
LastOf(s) == s[Len(s)]
\* the leftover bit count of the encoder's input
Leftover == (8 * Len(bytes)) % 11
\* the low p bits of index are all 1 (no bits at all when p <= 0)
LowBitsAllOne(index, p) == p <= 0 \/ index % (2 ^ p) = (2 ^ p) - 1
\* the pad width of a tail character met with `remaining` bits accumulated
TailPadding(remaining) == 3 - (8 - remaining)
Returned == pc \in {"done", "panic"}

\* C1: round trip -- decode(encode(b)) returns Some(b) for every byte
\* sequence b: neither call fails and the decoded bytes are exactly b.
C1_RoundTrip ==
    caller = "roundtrip" =>
        /\ pc \notin {"panic", "encode_panic"}
        /\ pc = "done" => (result = "some" /\ dec_ret = bytes)

C1_Witness ==
    /\ caller = "roundtrip" /\ pc = "done" /\ result = "some"
    /\ Len(bytes) = 10 /\ dec_ret = bytes
    /\ IsTail(LastOf(string))

\* C2: decode never raises a fatal error: no table lookup out of range and
\* no unsigned subtraction underflow, for any input string.
C2_NoFatalError == pc # "panic"

\* C3: decode returns None for every string with a character outside the
\* primary alphabet before the last position, and for every string whose last
\* character is in neither alphabet.
C3_MalformedGivesNone ==
    (/\ Returned
     /\ string # <<>>
     /\ \/ \E k \in 1..(Len(string) - 1) : ~IsPrimary(string[k])
        \/ (~IsPrimary(LastOf(string)) /\ ~IsTail(LastOf(string))))
    => result = "none"

C5_AllOthersDecode ==
    (/\ Returned
     /\ \A k \in 1..(Len(string) - 1) : IsPrimary(string[k])
     /\ \/ string = <<>>
        \/ IsPrimary(LastOf(string))
        \/ /\ IsTail(LastOf(string))
           /\ LowBitsAllOne(TailValue(LastOf(string)),
                            TailPadding(dec_remaining)))
    => result = "some"

\* C6: encode(b) has exactly ceil(8 * len(b) / 11) characters.
C6_EncodeLength ==
    pc = "encoded" => Len(enc_ret) = (8 * Len(bytes) + 10) \div 11

C6_Witness ==
    /\ pc = "encoded" /\ Len(bytes) = 7 /\ Len(enc_ret) = 6
    /\ IsTail(LastOf(enc_ret))

\* C7: every character of encode(b) but the last is a primary character; the
\* last one is a tail character exactly when 8*len(b) mod 11 is 1, 2 or 3 and
\* a primary character otherwise.
C7_OutputAlphabet ==
    pc = "encoded" =>
        /\ \A k \in 1..(Len(enc_ret) - 1) : IsPrimary(enc_ret[k])
        /\ enc_ret # <<>> =>
             /\ IsTail(LastOf(enc_ret)) <=> Leftover \in 1..3
             /\ Leftover \notin 1..3 => IsPrimary(LastOf(enc_ret))

C7_Witness ==
    /\ pc = "encoded" /\ Leftover = 3 /\ IsTail(LastOf(enc_ret))
    /\ Len(enc_ret) > 1

\* C8: encode never fails: every table index is in range, the accumulator
\* holds 0..10 bits with stage < 2^remaining after each byte, and no shift of
\* the 16-bit stage register loses a bit.
C8_EncodeTotal ==
    /\ pc # "encode_panic"
    /\ pc = "encode" =>
         /\ enc_remaining \in 0..10
         /\ enc_stage < 2 ^ enc_remaining
         /\ IF bi < Len(bytes)
              THEN IF 11 - enc_remaining <= 8
                     THEN enc_stage * (2 ^ (11 - enc_remaining)) < 65536
                     ELSE enc_stage * 256 < 65536
              ELSE IF enc_remaining <= 3
                     THEN enc_stage * (2 ^ (3 - enc_remaining)) < 65536
                     ELSE enc_stage * (2 ^ (11 - enc_remaining)) < 65536

C8_Witness ==
    /\ pc = "encode" /\ bi = Len(bytes) /\ Len(bytes) = 4
    /\ enc_remaining = 10 /\ enc_stage = 1023

\* The input as one big-endian bit stream: bit j, and the value of the len
\* bits starting at bit start.
RefBit(b, j) == (b[(j \div 8) + 1] \div (2 ^ (7 - (j % 8)))) % 2

RECURSIVE RefValue(_, _, _)
RefValue(b, start, len) ==
    IF len = 0 THEN 0
    ELSE 2 * RefValue(b, start, len - 1) + RefBit(b, start + len - 1)

RefEncode(b) ==
    LET n == 8 * Len(b)
        g == n \div 11
        r == n % 11
        v == RefValue(b, 11 * g, r)
    IN [k \in 1..g |-> ENC_TABLE[RefValue(b, 11 * (k - 1), 11)]]
       \o (IF r = 0 THEN <<>>
           ELSE IF r <= 3
             THEN <<TAIL[v * (2 ^ (3 - r)) + (2 ^ (3 - r)) - 1]>>
             ELSE <<ENC_TABLE[v * (2 ^ (11 - r)) + (2 ^ (11 - r)) - 1]>>)

C10_NoExtraByte ==
    [][(pc = "decode" /\ chars = <<>>)
       => (dec_remaining = 0 /\ dec_ret' = dec_ret)]_vars

C10_Witness ==
    /\ caller = "decode" /\ pc = "done" /\ result = "some"
    /\ Len(string) = 3 /\ IsTail(LastOf(string)) /\ Len(dec_ret) = 3

====
